---- MODULE Spec2Model ----
(***************************************************************************)
(* State-machine model of the AGMSC General Committee Chairman task        *)
(* manager (src/index.tsx): the App component's state, the handlers that   *)
(* change the plan, and the Date arithmetic those handlers rely on.        *)
(*                                                                         *)
(* Representation of JavaScript values                                     *)
(*   strings that hold dates   "YYYY-MM-DD" is the integer YYYYMMDD,       *)
(*                             "YYYY" is the integer YYYY, "" is EmptyStr, *)
(*                             any other text is NotADate                  *)
(*   Date objects              the time value in whole days since the      *)
(*                             epoch (date-only ISO strings parse to UTC   *)
(*                             midnight), or NaN for an Invalid Date       *)
(*   plan.termYear             "Y-(Y+1)" is the integer Y                  *)
(***************************************************************************)
EXTENDS Integers, Sequences, FiniteSets, TLC

(***************************************************************************)
(* Bounds of the model                                                     *)
(***************************************************************************)
MaxAdds == 2        \* handleAddTask calls in one behaviour
MaxTicks == 1       \* milliseconds the clock advances in one behaviour
MaxLoads == 1       \* files loaded in one behaviour
MaxUnordered == 1   \* sorts whose outcome the language leaves open, in one behaviour
MaxEdits == 1       \* uses of the inputs and the details button of the rows, in one behaviour
MaxGenerations == 2 \* plan generations asked for in one behaviour
MaxLogins == 1      \* submissions of the admin login form in one behaviour
MaxReports == 1     \* reports asked for in one behaviour

(***************************************************************************)
(* JavaScript Date                                                         *)
(***************************************************************************)
NaN == -999999      \* time value of an Invalid Date, and any NaN number
EmptyStr == 0       \* the string ""
NotADate == 1       \* a non-empty string that is no date, such as "TBD"

Truthy(s) == s # EmptyStr

IsLeap(y) == (y % 4 = 0 /\ y % 100 # 0) \/ y % 400 = 0

DaysInMonth(y, m) ==
    IF m = 2 THEN (IF IsLeap(y) THEN 29 ELSE 28)
    ELSE IF m \in {4, 6, 9, 11} THEN 30 ELSE 31

\* Days since 1970-01-01 of the civil date y-m-d (proleptic Gregorian).
DaysFromCivil(y, m, d) ==
    LET yy  == IF m <= 2 THEN y - 1 ELSE y
        era == yy \div 400
        yoe == yy - era * 400
        mp  == IF m > 2 THEN m - 3 ELSE m + 9
        doy == (153 * mp + 2) \div 5 + d - 1
        doe == yoe * 365 + yoe \div 4 - yoe \div 100 + doy
    IN  era * 146097 + doe - 719468

\* The civil date of a day number, as [y, m, d].
CivilFromDays(t) ==
    LET z   == t + 719468
        era == z \div 146097
        doe == z - era * 146097
        yoe == (doe - doe \div 1460 + doe \div 36524 - doe \div 146096) \div 365
        doy == doe - (365 * yoe + yoe \div 4 - yoe \div 100)
        mp  == (5 * doy + 2) \div 153
        d   == doy - (153 * mp + 2) \div 5 + 1
        m   == IF mp < 10 THEN mp + 3 ELSE mp - 9
        y   == yoe + era * 400 + (IF m <= 2 THEN 1 ELSE 0)
    IN  [y |-> y, m |-> m, d |-> d]

IsYearStr(s) == s \in 1000..9999

IsDateStr(s) ==
    /\ s \in 10000101..99991231
    /\ (s \div 100) % 100 \in 1..12
    /\ s % 100 \in 1..DaysInMonth(s \div 10000, (s \div 100) % 100)

\* new Date(s) for a string s: "YYYY-MM-DD" and "YYYY" are date-only ISO
\* forms and mean UTC midnight; anything else is an Invalid Date.
NewDate(s) ==
    IF IsDateStr(s) THEN DaysFromCivil(s \div 10000, (s \div 100) % 100, s % 100)
    ELSE IF IsYearStr(s) THEN DaysFromCivil(s, 1, 1)
    ELSE NaN

getTime(date) == date

\* Date.prototype.getMonth(): the month (0..11) of the date in LOCAL time.
\* UTC midnight is still the previous calendar day in a zone west of UTC.
getMonth(date, west) ==
    IF date = NaN THEN NaN
    ELSE CivilFromDays(IF west THEN date - 1 ELSE date).m - 1

\* a >= b on numbers: false as soon as one side is NaN.
GreaterEq(a, b) == a # NaN /\ b # NaN /\ a >= b

(***************************************************************************)
(* Tasks, periods, plans                                                   *)
(***************************************************************************)
Statuses == {"Not-Started", "In-Progress", "Completed", "Removed"}
Priorities == {"High", "Medium", "Low"}
UserAdded == "User Added"
Handbook == "Handbook"       \* any source citation other than 'User Added'

Task(id, startDate, dueDate, status, priority, source, comments) ==
    [id |-> id, startDate |-> startDate, dueDate |-> dueDate, status |-> status,
     priority |-> priority, source |-> source, comments |-> comments]

Period(periodName, tasks) == [periodName |-> periodName, tasks |-> tasks]

CurrentYear == 2025

\* `${currentYear + yOff}-MM-DD`
Ymd(yOff, m, d) == (CurrentYear + yOff) * 10000 + m * 100 + d

\* A task of the pre-built plan: status 'Not-Started', a handbook source.
Base(id, startDate, dueDate, priority, comments) ==
    Task(id, startDate, dueDate, "Not-Started", priority, Handbook, comments)

defaultPlan ==
    [termYear |-> CurrentYear,
     periods |-> <<
       Period("Post-Course & Fall Planning", <<
         Base(1, Ymd(0, 8, 22), Ymd(0, 8, 25), "Medium", ""),
         Base(2, Ymd(0, 9, 1), Ymd(0, 9, 15), "High", "text"),
         Base(3, Ymd(0, 10, 1), Ymd(0, 10, 15), "Medium", ""),
         Base(4, Ymd(0, 10, 15), Ymd(0, 10, 30), "Medium", "text"),
         Base(5, Ymd(0, 9, 23), Ymd(0, 9, 30), "High", ""),
         Base(6, Ymd(0, 9, 24), Ymd(0, 10, 1), "Medium", "") >>),
       Period("Winter Prep", <<
         Base(7, Ymd(0, 11, 8), Ymd(0, 11, 15), "Medium", "text"),
         Base(8, Ymd(0, 12, 20), Ymd(1, 1, 5), "High", ""),
         Base(9, Ymd(1, 1, 3), Ymd(1, 1, 10), "Low", "text"),
         Base(10, Ymd(1, 1, 13), Ymd(1, 1, 20), "High", ""),
         Base(11, Ymd(1, 1, 18), Ymd(1, 1, 25), "Medium", "") >>),
       Period("Spring Finalization", <<
         Base(12, Ymd(1, 2, 21), Ymd(1, 2, 28), "High", "text"),
         Base(13, Ymd(1, 2, 22), Ymd(1, 3, 1), "High", ""),
         Base(14, Ymd(1, 3, 8), Ymd(1, 3, 15), "Medium", "text"),
         Base(15, Ymd(1, 3, 25), Ymd(1, 4, 1), "High", ""),
         Base(16, Ymd(1, 4, 15), Ymd(1, 4, 30), "Medium", "text") >>),
       Period("Pre-Course Prep", <<
         Base(17, Ymd(1, 5, 1), Ymd(1, 5, 15), "High", ""),
         Base(18, Ymd(1, 5, 24), Ymd(1, 6, 1), "Medium", ""),
         Base(19, Ymd(1, 6, 15), Ymd(1, 6, 30), "High", ""),
         Base(20, Ymd(1, 7, 1), Ymd(1, 7, 15), "Medium", ""),
         Base(21, Ymd(1, 7, 15), Ymd(1, 7, 30), "High", ""),
         Base(22, Ymd(1, 7, 10), Ymd(1, 7, 25), "High", "text") >>),
       Period("August (Short Course)", <<
         Base(23, Ymd(1, 8, 11), Ymd(1, 8, 18), "High", "text"),
         Base(24, Ymd(1, 8, 12), Ymd(1, 8, 19), "High", ""),
         Base(25, Ymd(1, 8, 13), Ymd(1, 8, 20), "High", "text"),
         Base(26, Ymd(1, 8, 14), Ymd(1, 8, 21), "Medium", "text") >>) >>]

(***************************************************************************)
(* Array.prototype.sort with the comparator of handleAddTask               *)
(***************************************************************************)
\* (a, b) => new Date(a.dueDate).getTime() - new Date(b.dueDate).getTime()
compareDue(a, b) ==
    LET ta == getTime(NewDate(a.dueDate))
        tb == getTime(NewDate(b.dueDate))
    IN  IF ta = NaN \/ tb = NaN THEN NaN ELSE ta - tb

\* sort reads a comparator result of NaN as +0.
SortOrder(a, b) == IF compareDue(a, b) = NaN THEN 0 ELSE compareDue(a, b)

\* The comparator orders the elements of s consistently ("equal" is
\* transitive and compatible with "less"). Only then is the result of sort
\* fixed by the language (and stable); otherwise it is implementation-defined.
\* An invalid due date compares equal to every element, so the comparator is
\* inconsistent exactly when one is present beside two different valid dates.
ConsistentComparator(s) ==
    LET times == { getTime(NewDate(s[i].dueDate)) : i \in 1..Len(s) }
    IN  ~ (NaN \in times /\ Cardinality(times \ { NaN }) > 1)

RECURSIVE InsertSorted(_, _)
\* x put after every element of the sorted sequence s that is not greater.
InsertSorted(s, x) ==
    IF s = << >> THEN << x >>
    ELSE IF SortOrder(Head(s), x) <= 0 THEN << Head(s) >> \o InsertSorted(Tail(s), x)
    ELSE << x >> \o s

RECURSIVE StableSort(_)
StableSort(s) ==
    IF s = << >> THEN << >>
    ELSE InsertSorted(StableSort(SubSeq(s, 1, Len(s) - 1)), s[Len(s)])

Rearrangements(s) ==
    { [i \in 1..Len(s) |-> s[p[i]]] : p \in Permutations(1..Len(s)) }

\* Variant: a sort that is not stable (ties come out in reverse).
SortResults_Unstable(s) ==
    { StableSort([i \in 1..Len(s) |-> s[Len(s) + 1 - i]]) }

\* The arrays tasks.sort(comparator) can leave behind.
SortResults(s) ==
    IF ConsistentComparator(s) THEN { StableSort(s) } ELSE Rearrangements(s)

(***************************************************************************)
(* handleAddTask: the updater passed to setPlan                            *)
(***************************************************************************)
\* prevPlan.termYear.split('-')[0]
TermStartYear(termYear) == termYear

\* new Date(period.tasks[0]?.dueDate || prevPlan.termYear.split('-')[0]).getMonth()
periodMonth(period, termYear, west) ==
    getMonth(NewDate(IF Len(period.tasks) > 0 /\ Truthy(period.tasks[1].dueDate)
                     THEN period.tasks[1].dueDate
                     ELSE TermStartYear(termYear)), west)

\* if (taskDueDate.getMonth() >= periodMonth)
PeriodMatches(period, termYear, newTask, west) ==
    GreaterEq(getMonth(NewDate(newTask.dueDate), west),
              periodMonth(period, termYear, west))

\* Variant: the scan keeps the last period that matches.
FoundPeriod_LastMatch(periods, termYear, newTask, west) ==
    LET hits == { i \in 1..Len(periods) :
                    PeriodMatches(periods[i], termYear, newTask, west) }
    IN  IF hits = {} THEN 0 ELSE CHOOSE i \in hits : \A j \in hits : i >= j

\* The for loop with its break: the index of the first period that matches,
\* 0 when the loop ends with periodFound = false.
FoundPeriod(periods, termYear, newTask, west) ==
    LET hits == { i \in 1..Len(periods) :
                    PeriodMatches(periods[i], termYear, newTask, west) }
    IN  IF hits = {} THEN 0 ELSE CHOOSE i \in hits : \A j \in hits : i <= j

\* Variant: without a match the task goes to the last period.
TargetPeriod_FallbackLast(periods, termYear, newTask, west) ==
    LET found == FoundPeriod(periods, termYear, newTask, west)
    IN  IF found # 0 THEN found ELSE Len(periods)

\* The period that receives the task: the one found, else the first.
TargetPeriod(periods, termYear, newTask, west) ==
    LET found == FoundPeriod(periods, termYear, newTask, west)
    IN  IF found # 0 THEN found ELSE 1

\* Variant: the task is put where it belongs among the tasks as they stand,
\* without sorting them.
PushAndSort_InsertOnly(tasks, newTask) == { InsertSorted(tasks, newTask) }

\* period.tasks.push(newTask); period.tasks.sort(...)
PushAndSort(tasks, newTask) == SortResults(Append(tasks, newTask))

\* Variant: a plan without periods is returned as it is.
AddTaskToPlan_NoGeneral(prevPlan, newTask, west) ==
    IF Len(prevPlan.periods) = 0
    THEN { prevPlan }
    ELSE LET k == TargetPeriod(prevPlan.periods, prevPlan.termYear, newTask, west)
         IN  { [prevPlan EXCEPT !.periods[k].tasks = sorted] :
                 sorted \in PushAndSort(prevPlan.periods[k].tasks, newTask) }

\* Variant: the loop has no break, so every matching period gets the task.
AddTaskToPlan_NoBreak(prevPlan, newTask, west) ==
    IF Len(prevPlan.periods) = 0
    THEN { [prevPlan EXCEPT !.periods = << Period("General", << newTask >>) >>] }
    ELSE LET found == FoundPeriod(prevPlan.periods, prevPlan.termYear, newTask, west)
             gets(i) == IF found = 0 THEN i = 1
                        ELSE PeriodMatches(prevPlan.periods[i], prevPlan.termYear,
                                           newTask, west)
         IN  { [prevPlan EXCEPT !.periods =
                  [i \in 1..Len(prevPlan.periods) |->
                     IF gets(i)
                     THEN [prevPlan.periods[i] EXCEPT !.tasks =
                             StableSort(Append(prevPlan.periods[i].tasks, newTask))]
                     ELSE prevPlan.periods[i]]] }

\* The plans the updater can return for prevPlan.
AddTaskToPlan(prevPlan, newTask, west) ==
    IF Len(prevPlan.periods) = 0
    THEN { [prevPlan EXCEPT !.periods = << Period("General", << newTask >>) >>] }
    ELSE LET k == TargetPeriod(prevPlan.periods, prevPlan.termYear, newTask, west)
         IN  { [prevPlan EXCEPT !.periods[k].tasks = sorted] :
                 sorted \in PushAndSort(prevPlan.periods[k].tasks, newTask) }

(***************************************************************************)
(* Inputs: the add-task form, the files offered to Load Plan               *)
(***************************************************************************)
\* Values of the form's two date inputs (required, so never "").
AddStartDates == { Ymd(0, 8, 1) }
AddDueDates == { Ymd(0, 10, 1), Ymd(0, 11, 20), Ymd(1, 1, 15) }
AddStatuses == { "Not-Started" }
AddPriorities == { "Medium" }

\* newTaskData: Omit<Task, 'id' | 'source'>
AddForms ==
    [startDate : AddStartDates, dueDate : AddDueDates, status : AddStatuses,
     priority : AddPriorities, comments : { "" }]

\* A task as it is written in a saved plan file.
Saved(id, dueDate) == Base(id, Ymd(0, 8, 1), dueDate, "Medium", "")

PlanFile(termYear, periods) ==
    [parses |-> TRUE, hasTermYear |-> TRUE, hasPeriods |-> TRUE,
     termYear |-> termYear, periods |-> periods]

\* Periods whose first tasks are due in August, November, February, May.
FileQuarters ==
    PlanFile(CurrentYear, <<
      Period("Aug-Oct", << Saved(1, Ymd(0, 8, 20)) >>),
      Period("Nov-Jan", << Saved(2, Ymd(0, 11, 10)) >>),
      Period("Feb-Apr", << Saved(3, Ymd(1, 2, 10)) >>),
      Period("May-Jul", << Saved(4, Ymd(1, 5, 10)) >>) >>)

\* First tasks due in August and November; two tasks share a due date.
FileTwoPeriods ==
    PlanFile(CurrentYear, <<
      Period("Fall", << Saved(1, Ymd(0, 8, 15)), Saved(2, Ymd(0, 11, 20)),
                        Saved(3, Ymd(0, 11, 20)) >>),
      Period("Winter", << Saved(4, Ymd(0, 11, 5)) >>) >>)

FileNoPeriods == PlanFile(CurrentYear, << >>)

\* A period without tasks behind one whose first task is due in November.
FileEmptyPeriod ==
    PlanFile(CurrentYear, <<
      Period("Winter", << Saved(1, Ymd(0, 11, 10)) >>),
      Period("Later", << >>) >>)

\* Due dates that do not parse: free text and a cleared date field.
FileBlankDates ==
    PlanFile(CurrentYear, <<
      Period("Fall", << Saved(1, Ymd(0, 8, 15)) >>),
      Period("Winter", << Saved(2, NotADate), Saved(3, Ymd(0, 9, 1)) >>),
      Period("Spring", << Saved(4, Ymd(1, 1, 20)), Saved(5, EmptyStr) >>),
      Period("Summer", << Saved(6, EmptyStr) >>) >>)

\* Text that is no JSON, and JSON without a periods field.
FileNotJson ==
    [parses |-> FALSE, hasTermYear |-> FALSE, hasPeriods |-> FALSE,
     termYear |-> EmptyStr, periods |-> << >>]
FileWithoutPeriods ==
    [parses |-> TRUE, hasTermYear |-> TRUE, hasPeriods |-> FALSE,
     termYear |-> CurrentYear, periods |-> << >>]

Files ==
    { FileQuarters, FileTwoPeriods, FileNoPeriods, FileEmptyPeriod,
      FileBlankDates, FileNotJson, FileWithoutPeriods }

(***************************************************************************)
(* State                                                                   *)
(***************************************************************************)
VARIABLES
    plan,           \* useState<Plan>(defaultPlan)
    activeTab,      \* useState('baseline')
    loading,        \* useState(false)
    error,          \* useState<string | null>(null)
    notification,   \* useState<string | null>(null)
    timers,         \* pending setTimeout callbacks of showNotification
    clock,          \* what Date.now() returned last
    tzWest,         \* the browser's time zone is west of UTC
    isAdmin,        \* useState(false)
    ai,             \* the module-level client handle: "client" or Null
    request,        \* the generateContent call in flight, or NoRequest
    editingTask,    \* useState<Task | null>(null), null being NoTask
    showModal,      \* useState(false)
    localTask,      \* DetailsModal's useState({ ...task }) while it is mounted
    activeTasks,    \* the activeTasks array of App's latest render, as positions in plan
    view,           \* ProgressViewer's useState('Dashboard') while it is mounted
    report,         \* AutomatedReportsView's report and loading states while it is mounted
    last,           \* history: the latest change made to the plan
    used            \* history: how much of each bound is used up

vars == << plan, activeTab, loading, error, notification, timers, clock,
           tzWest, isAdmin, ai, request, editingTask, showModal, localTask,
           activeTasks, view, report, last, used >>

adminVars == << isAdmin, ai, request >>
modalVars == << editingTask, showModal, localTask >>

Null == "null"
StartClock == 100    \* Date.now() when the page is opened

NoTask == Task(0, EmptyStr, EmptyStr, "Not-Started", "Medium", "", "")
NoRequest == [year |-> EmptyStr]

\* A change made to prevPlan by a task-level operation.
Change(op, prevPlan, task) ==
    [op |-> op, prev |-> prevPlan.periods, termYear |-> prevPlan.termYear,
     task |-> task, at |-> << 0, 0 >>]

\* A change made through the row at position pos of prevPlan.
ChangeAt(op, prevPlan, task, pos) == [Change(op, prevPlan, task) EXCEPT !.at = pos]

\* The whole plan was replaced; what it replaced is not kept.
Replaced(op) ==
    [op |-> op, prev |-> << >>, termYear |-> EmptyStr, task |-> NoTask, at |-> << 0, 0 >>]

\* The positions << period, index >> of p's tasks, in the order of
\* p.periods.flatMap(p => p.tasks).
RECURSIVE allPositions(_, _)
allPositions(p, i) ==
    IF i > Len(p.periods) THEN << >>
    ELSE [j \in 1..Len(p.periods[i].tasks) |-> << i, j >>] \o allPositions(p, i + 1)

\* Variant: every task is passed on, whatever its status.
ActivePositions_All(p) == allPositions(p, 1)

\* allTasks.filter(task => task.status !== 'Removed'), as positions.
ActivePositions(p) ==
    LET NotRemoved(pos) == p.periods[pos[1]].tasks[pos[2]].status # "Removed"
    IN  SelectSeq(allPositions(p, 1), NotRemoved)

\* App renders: it builds a new activeTasks array from the plan it renders.
AppRenders(nextPlan) == activeTasks' = ActivePositions(nextPlan)

Init ==
    /\ plan = defaultPlan
    /\ activeTab = "baseline"
    /\ loading = FALSE
    /\ error = Null
    /\ notification = Null
    /\ timers = 0
    /\ clock = StartClock
    /\ tzWest \in BOOLEAN
    /\ isAdmin = FALSE
    /\ ai = Null
    /\ request = NoRequest
    /\ editingTask = NoTask
    /\ showModal = FALSE
    /\ localTask = NoTask
    /\ activeTasks = ActivePositions(defaultPlan)
    /\ view = "Dashboard"
    /\ report = "none"
    /\ last = Replaced("none")
    /\ used = [adds |-> 0, loads |-> 0, unordered |-> 0, edits |-> 0,
               generations |-> 0, logins |-> 0, reports |-> 0]

\* {showModal && editingTask && <DetailsModal ... />}: the modal and its
\* backdrop cover the page.
ModalOpen == showModal /\ editingTask # NoTask

\* The ternary of App's render: a tab's view exists only when nothing is
\* loading and no error is shown; it is used only while no modal covers it.
Rendered(tab) == ~loading /\ error = Null /\ activeTab = tab /\ ~ModalOpen

\* Variant: a new notification cancels the timers still pending.
showNotification_Restarts(message) ==
    /\ notification' = message
    /\ timers' = 1

\* setNotification(message); setTimeout(() => setNotification(null), 4000)
showNotification(message) ==
    /\ notification' = message
    /\ timers' = timers + 1

\* The callback of the oldest pending timer: setNotification(null).  All
\* timers have the same delay, so they fire in the order they were set.
timerFires ==
    /\ timers > 0
    /\ timers' = timers - 1
    /\ notification' = Null
    /\ UNCHANGED << plan, activeTab, loading, error, clock, tzWest, isAdmin, ai,
                    request, editingTask, showModal, localTask, view, report,
                    last, used >>
    /\ IF notification # Null
       THEN activeTasks' = ActivePositions(plan)
       ELSE UNCHANGED activeTasks

\* A click on a tab button; the Automated Reports tab exists for admins only.
setActiveTab(tab) ==
    /\ ~ModalOpen
    /\ tab = "reports" => isAdmin
    /\ tab # activeTab
    /\ activeTab' = tab
    /\ view' = "Dashboard"
    /\ report' = "none"
    /\ UNCHANGED << plan, loading, error, notification, timers, clock, tzWest,
                    adminVars, modalVars, last, used >>
    /\ AppRenders(plan)

\* The sort of this add has no outcome fixed by the language.
SortLeftOpen(prevPlan, dueDate, west) ==
    /\ Len(prevPlan.periods) > 0
    /\ LET probe == [NoTask EXCEPT !.dueDate = dueDate]
           k == TargetPeriod(prevPlan.periods, prevPlan.termYear, probe, west)
       IN  ~ ConsistentComparator(Append(prevPlan.periods[k].tasks, probe))

\* The values Date.now() can return at the next call: time does not run
\* backwards, and two calls can fall into the same millisecond.
Now == { t \in clock..(clock + 1) : t <= StartClock + MaxTicks }

\* AddTaskView.handleSubmit with a complete form, and handleAddTask.
handleAddTask(newTaskData, now) ==
    /\ Rendered("addTask")
    /\ used.adds < MaxAdds
    /\ Truthy(newTaskData.startDate) /\ Truthy(newTaskData.dueDate)
    /\ clock' = now
    /\ LET newTask == Task(now, newTaskData.startDate, newTaskData.dueDate,
                           newTaskData.status, newTaskData.priority, UserAdded,
                           newTaskData.comments)
       IN  /\ plan' \in AddTaskToPlan(plan, newTask, tzWest)
           /\ last' = Change("add", plan, newTask)
    /\ showNotification("Task added successfully!")
    /\ activeTab' = "added"
    /\ LET open == IF SortLeftOpen(plan, newTaskData.dueDate, tzWest) THEN 1 ELSE 0
       IN  /\ used.unordered + open <= MaxUnordered
           /\ used' = [used EXCEPT !.adds = @ + 1, !.unordered = @ + open]
    /\ UNCHANGED << loading, error, tzWest, adminVars, modalVars, view, report >>
    /\ AppRenders(plan')

\* App's onPlanLoad prop.
onPlanLoad(loadedPlan) ==
    /\ plan' = loadedPlan
    /\ last' = Replaced("load")
    /\ showNotification("Plan loaded successfully!")
    /\ activeTab' = "baseline"
    /\ AppRenders(plan')

\* Variant: a file that is turned down also sends the user to the baseline.
handleLoad_ToBaseline(file) ==
    /\ Rendered("saveLoad")
    /\ IF file.parses /\ file.hasTermYear /\ Truthy(file.termYear) /\ file.hasPeriods
       THEN /\ used.loads < MaxLoads
            /\ used' = [used EXCEPT !.loads = @ + 1]
            /\ onPlanLoad([termYear |-> file.termYear, periods |-> file.periods])
       ELSE /\ last' = Change("loadFailed", plan, NoTask)
            /\ activeTab' = "baseline"
            /\ UNCHANGED << plan, notification, timers, used, activeTasks >>
    /\ UNCHANGED << loading, error, clock, tzWest, adminVars, modalVars, view, report >>

\* SaveLoadView.handleLoad and the reader's onload callback.
handleLoad(file) ==
    /\ Rendered("saveLoad")
    /\ IF file.parses /\ file.hasTermYear /\ Truthy(file.termYear) /\ file.hasPeriods
       THEN /\ used.loads < MaxLoads
            /\ used' = [used EXCEPT !.loads = @ + 1]
            /\ onPlanLoad([termYear |-> file.termYear, periods |-> file.periods])
       ELSE /\ last' = Change("loadFailed", plan, NoTask)
            /\ UNCHANGED << plan, notification, timers, activeTab, used, activeTasks >>
    /\ UNCHANGED << loading, error, clock, tzWest, adminVars, modalVars, view, report >>

(***************************************************************************)
(* Task tables, the details modal                                          *)
(***************************************************************************)
\* The index of the first task of tasks with this id, 0 for findIndex's -1.
findIndex(tasks, id) ==
    LET hits == { i \in 1..Len(tasks) : tasks[i].id = id }
    IN  IF hits = {} THEN 0 ELSE CHOOSE i \in hits : \A j \in hits : i <= j

\* Variant: a task whose new status is Removed is taken out of its period.
handleTaskUpdate_Deletes(prevPlan, updatedTask) ==
    [prevPlan EXCEPT !.periods =
       [i \in 1..Len(prevPlan.periods) |->
          LET period == prevPlan.periods[i]
              taskIndex == findIndex(period.tasks, updatedTask.id)
          IN  IF taskIndex = 0 THEN period
              ELSE IF updatedTask.status = "Removed"
              THEN [period EXCEPT !.tasks =
                      SubSeq(period.tasks, 1, taskIndex - 1)
                        \o SubSeq(period.tasks, taskIndex + 1, Len(period.tasks))]
              ELSE [period EXCEPT !.tasks[taskIndex] = updatedTask]]]

\* The updater handleTaskUpdate passes to setPlan.
handleTaskUpdate(prevPlan, updatedTask) ==
    [prevPlan EXCEPT !.periods =
       [i \in 1..Len(prevPlan.periods) |->
          LET period == prevPlan.periods[i]
              taskIndex == findIndex(period.tasks, updatedTask.id)
          IN  IF taskIndex # 0
              THEN [period EXCEPT !.tasks[taskIndex] = updatedTask]
              ELSE period]]

\* Variant: the Added view filters by source only.
ListedIn_AddedBySource(tab, task) ==
    CASE tab = "baseline" -> /\ task.status # "Completed" /\ task.status # "Removed"
                             /\ task.source # UserAdded
      [] tab = "added" -> task.source = UserAdded
      [] tab = "completed" -> task.status = "Completed"
      [] tab = "removed" -> task.status = "Removed"
      [] OTHER -> FALSE

\* The filters of the four list views.
ListedIn(tab, task) ==
    CASE tab = "baseline" -> /\ task.status # "Completed" /\ task.status # "Removed"
                             /\ task.source # UserAdded
      [] tab = "added" -> /\ task.status # "Completed" /\ task.status # "Removed"
                          /\ task.source = UserAdded
      [] tab = "completed" -> task.status = "Completed"
      [] tab = "removed" -> task.status = "Removed"
      [] OTHER -> FALSE

\* The positions << period, index >> of the plan's tasks.
Positions(p) ==
    UNION { { << i, j >> : j \in 1..Len(p.periods[i].tasks) } : i \in 1..Len(p.periods) }

IsPosition(p, pos) ==
    /\ pos[1] \in 1..Len(p.periods)
    /\ pos[2] \in 1..Len(p.periods[pos[1]].tasks)

TaskAt(p, pos) == p.periods[pos[1]].tasks[pos[2]]

\* The rows a user edits in this model: tasks with one of these ids.
EditIds == { 1, StartClock }

\* The dates picked in the date inputs of a row.  (A cleared input gives '';
\* plans with such dates are the loaded FileBlankDates of SpecAdd.)
EditDates == { Ymd(0, 9, 5), Ymd(1, 2, 14) }

FieldValues(field) ==
    CASE field = "startDate" -> EditDates
      [] field = "dueDate" -> EditDates
      [] field = "status" -> Statuses
      [] field = "priority" -> Priorities

\* TaskRow.handleFieldChange from an input's onChange, and handleTaskUpdate.
handleFieldChange(pos, field, value) ==
    /\ activeTab \in { "baseline", "added", "completed" }
    /\ Rendered(activeTab)
    /\ used.edits < MaxEdits
    /\ IsPosition(plan, pos)
    /\ TaskAt(plan, pos).id \in EditIds
    /\ ListedIn(activeTab, TaskAt(plan, pos))
    /\ field = "priority" => (isAdmin /\ TaskAt(plan, pos).status # "Completed")
    /\ value # TaskAt(plan, pos)[field]
    /\ LET updatedTask == [TaskAt(plan, pos) EXCEPT ![field] = value]
       IN  /\ plan' = handleTaskUpdate(plan, updatedTask)
           /\ last' = ChangeAt("edit", plan, updatedTask, pos)
    /\ used' = [used EXCEPT !.edits = @ + 1]
    /\ UNCHANGED << activeTab, loading, error, notification, timers, clock,
                    tzWest, adminVars, modalVars, view, report >>
    /\ AppRenders(plan')

\* RemovedTasksView.handleRestoreTask.
handleRestoreTask(pos) ==
    /\ Rendered("removed")
    /\ IsPosition(plan, pos)
    /\ ListedIn("removed", TaskAt(plan, pos))
    /\ LET updatedTask == [TaskAt(plan, pos) EXCEPT !.status = "Not-Started"]
       IN  /\ plan' = handleTaskUpdate(plan, updatedTask)
           /\ last' = ChangeAt("restore", plan, updatedTask, pos)
    /\ UNCHANGED << activeTab, loading, error, notification, timers, clock,
                    tzWest, adminVars, modalVars, view, report, used >>
    /\ AppRenders(plan')

\* "Manage Details" in a row: handleOpenModal, and DetailsModal mounts.
handleOpenModal(pos) ==
    /\ activeTab \in { "baseline", "added", "completed", "removed" }
    /\ Rendered(activeTab)
    /\ used.edits < MaxEdits
    /\ IsPosition(plan, pos)
    /\ TaskAt(plan, pos).id \in EditIds
    /\ ListedIn(activeTab, TaskAt(plan, pos))
    /\ used' = [used EXCEPT !.edits = @ + 1]
    /\ editingTask' = TaskAt(plan, pos)
    /\ showModal' = TRUE
    /\ localTask' = TaskAt(plan, pos)
    /\ UNCHANGED << plan, activeTab, loading, error, notification, timers,
                    clock, tzWest, adminVars, view, report, last >>
    /\ AppRenders(plan)

\* DetailsModal.handleCommentChange.
handleCommentChange(newComment) ==
    /\ ModalOpen
    /\ newComment # localTask.comments
    /\ localTask' = [localTask EXCEPT !.comments = newComment]
    /\ UNCHANGED << plan, activeTab, loading, error, notification, timers,
                    clock, tzWest, adminVars, editingTask, showModal,
                    activeTasks, view, report, last, used >>

\* "Save Details": onSave(localTask), which is handleDetailsSave.
handleDetailsSave ==
    /\ ModalOpen
    /\ plan' = handleTaskUpdate(plan, localTask)
    /\ last' = Change("save", plan, localTask)
    /\ showModal' = FALSE
    /\ editingTask' = NoTask
    /\ localTask' = NoTask
    /\ UNCHANGED << activeTab, loading, error, notification, timers, clock,
                    tzWest, adminVars, view, report, used >>
    /\ AppRenders(plan')

\* "Cancel", the close button, the backdrop: onClose.
closeModal ==
    /\ ModalOpen
    /\ showModal' = FALSE
    /\ localTask' = NoTask
    /\ UNCHANGED << plan, activeTab, loading, error, notification, timers,
                    clock, tzWest, adminVars, editingTask, view, report, last, used >>
    /\ AppRenders(plan)

(***************************************************************************)
(* Admin login, plan generation                                            *)
(***************************************************************************)
Passwords == { "0665", "guess" }
Keys == { "", "key" }

\* AdminLoginView.handleSubmit and handleLogin; the client's constructor may throw.
handleLogin(password, key, throws) ==
    /\ Rendered("admin")
    /\ ~isAdmin
    /\ used.logins < MaxLogins
    /\ used' = [used EXCEPT !.logins = @ + 1]
    /\ IF password = "0665" /\ key # "" /\ ~throws
       THEN /\ ai' = "client"
            /\ isAdmin' = TRUE
            /\ activeTab' = "baseline"
            /\ showNotification("Admin login successful. Advanced features enabled.")
            /\ AppRenders(plan)
       ELSE UNCHANGED << ai, isAdmin, activeTab, notification, timers, activeTasks >>
    /\ UNCHANGED << plan, loading, error, clock, tzWest, request, modalVars,
                    view, report, last >>

\* A logout that drops the generation request in flight.
handleLogout_Cancels ==
    /\ isAdmin
    /\ ~ModalOpen
    /\ isAdmin' = FALSE
    /\ ai' = Null
    /\ request' = NoRequest
    /\ loading' = FALSE
    /\ activeTab' = "baseline"
    /\ view' = "Dashboard"
    /\ report' = "none"
    /\ showNotification("You have been logged out.")
    /\ UNCHANGED << plan, error, clock, tzWest, modalVars, last, used >>
    /\ AppRenders(plan)

\* A logout that leaves the client handle in place.
handleLogout_KeepsClient ==
    /\ isAdmin
    /\ ~ModalOpen
    /\ isAdmin' = FALSE
    /\ activeTab' = "baseline"
    /\ view' = "Dashboard"
    /\ report' = "none"
    /\ showNotification("You have been logged out.")
    /\ UNCHANGED << plan, loading, error, clock, tzWest, ai, request, modalVars,
                    last, used >>
    /\ AppRenders(plan)

\* The Logout button of Tabs.
handleLogout ==
    /\ isAdmin
    /\ ~ModalOpen
    /\ isAdmin' = FALSE
    /\ ai' = Null
    /\ activeTab' = "baseline"
    /\ view' = "Dashboard"
    /\ report' = "none"
    /\ showNotification("You have been logged out.")
    /\ UNCHANGED << plan, loading, error, clock, tzWest, request, modalVars,
                    last, used >>
    /\ AppRenders(plan)

\* Term years typed into the admin panel (they match /^\d{4}-\d{4}$/).
GenerateYears == { CurrentYear + 1 }

\* Variant: the admin panel is also there while the error is displayed.
generatePlan_FromErrorPage(year) ==
    /\ ~loading
    /\ activeTab = "admin"
    /\ ~ModalOpen
    /\ isAdmin
    /\ used.generations < MaxGenerations
    /\ used' = [used EXCEPT !.generations = @ + 1]
    /\ IF ai = Null
       THEN /\ error' = "Client not initialized. Please log in via the Admin tab."
            /\ showNotification("Client not initialized. Please log in via the Admin tab.")
            /\ loading' = FALSE
            /\ UNCHANGED request
       ELSE /\ loading' = TRUE
            /\ error' = Null
            /\ request' = [year |-> year]
            /\ UNCHANGED << notification, timers >>
    /\ UNCHANGED << plan, activeTab, clock, tzWest, isAdmin, ai, modalVars, view, report, last >>
    /\ AppRenders(plan)

\* AdminPanelView.handleSave, confirmed, and generatePlan up to its await.
generatePlan(year) ==
    /\ Rendered("admin")
    /\ isAdmin
    /\ used.generations < MaxGenerations
    /\ used' = [used EXCEPT !.generations = @ + 1]
    /\ IF ai = Null
       THEN /\ error' = "Client not initialized. Please log in via the Admin tab."
            /\ showNotification("Client not initialized. Please log in via the Admin tab.")
            /\ loading' = FALSE
            /\ UNCHANGED request
       ELSE /\ loading' = TRUE
            /\ error' = Null
            /\ request' = [year |-> year]
            /\ UNCHANGED << notification, timers >>
    /\ UNCHANGED << plan, activeTab, clock, tzWest, isAdmin, ai, modalVars, view, report, last >>
    /\ AppRenders(plan)

\* A task as the service writes it; ids are whatever the service chose.
Generated(id, dueDate) == Base(id, Ymd(1, 8, 1), dueDate, "High", "")

Response(rejects, parses, periods) ==
    [rejects |-> rejects, parses |-> parses, hasPeriods |-> TRUE, periods |-> periods]

\* What the generateContent call can end with.
Responses ==
    { Response(TRUE, FALSE, << >>),
      Response(FALSE, FALSE, << >>),
      [Response(FALSE, TRUE, << >>) EXCEPT !.hasPeriods = FALSE],
      Response(FALSE, TRUE, <<
        Period("August - October", << Generated(1, Ymd(1, 9, 10)),
                                      Generated(1, Ymd(1, 8, 20)) >>),
        Period("November - January", << >>),
        Period("February - April", << Generated(7, Ymd(2, 2, 1)) >>) >>) }

\* let idCounter = 1; parsedPlan.periods.forEach(p => p.tasks.forEach(t => t.id = idCounter++))
Renumbered(periods) ==
    LET before(i) == LET lens == [k \in 1..Len(periods) |-> Len(periods[k].tasks)]
                         sum[k \in 0..Len(periods)] ==
                             IF k = 0 THEN 0 ELSE sum[k - 1] + lens[k]
                     IN  sum[i - 1]
    IN  [i \in 1..Len(periods) |->
           [periods[i] EXCEPT !.tasks =
              [j \in 1..Len(periods[i].tasks) |->
                 [periods[i].tasks[j] EXCEPT !.id = before(i) + j]]]]

\* generatePlan from its await to its end without the catch block: a failure
\* leaves the error state as it was.
generatePlanSettles_NoCatch(response) ==
    /\ request # NoRequest
    /\ request' = NoRequest
    /\ loading' = FALSE
    /\ IF ~response.rejects /\ response.parses /\ response.hasPeriods
       THEN /\ plan' = [termYear |-> request.year,
                        periods |-> Renumbered(response.periods)]
            /\ last' = Replaced("generate")
            /\ showNotification("New plan generated successfully!")
            /\ activeTab' = "baseline"
       ELSE /\ last' = Change("generateFailed", plan, NoTask)
            /\ UNCHANGED << plan, notification, timers, activeTab >>
    /\ UNCHANGED << error, clock, tzWest, isAdmin, ai, modalVars, view, report, used >>
    /\ AppRenders(plan')

\* generatePlan from its await to its end: try, catch, finally.
generatePlanSettles(response) ==
    /\ request # NoRequest
    /\ request' = NoRequest
    /\ loading' = FALSE
    /\ IF ~response.rejects /\ response.parses /\ response.hasPeriods
       THEN /\ plan' = [termYear |-> request.year,
                        periods |-> Renumbered(response.periods)]
            /\ last' = Replaced("generate")
            /\ showNotification("New plan generated successfully!")
            /\ activeTab' = "baseline"
            /\ UNCHANGED error
       ELSE /\ error' = "Failed to generate plan. Please check your Key and try again."
            /\ last' = Change("generateFailed", plan, NoTask)
            /\ UNCHANGED << plan, notification, timers, activeTab >>
    /\ UNCHANGED << clock, tzWest, isAdmin, ai, modalVars, view, report, used >>
    /\ AppRenders(plan')

(***************************************************************************)
(* The Progress Viewer: DashboardView, KanbanView, GanttView               *)
(***************************************************************************)
\* A percentage num / den, den > 0; the percentage that is no number (NaN)
\* is 0 / 0.
Pct(num, den) == [num |-> num, den |-> den]

NaNPct == Pct(0, 0)

isNaN(p) == p.den = 0

Less(p, q) == p.num * q.den < q.num * p.den

\* Math.max(p, q): NaN as soon as one argument is NaN.
MathMax(p, q) == IF isNaN(p) \/ isNaN(q) THEN NaNPct ELSE IF Less(p, q) THEN q ELSE p

\* (a.getTime() - b.getTime()) / (1000 * 3600 * 24) for two dates.
DaysBetween(a, b) == IF getTime(a) = NaN \/ getTime(b) = NaN THEN NaN ELSE getTime(a) - getTime(b)

\* (days / totalDays) * 100
Percent(days, total) == IF days = NaN \/ total = NaN THEN NaNPct ELSE Pct(100 * days, total)

\* parseInt(termYear.split('-')[0], 10)
parseInt(termYear) == IF IsYearStr(TermStartYear(termYear)) THEN TermStartYear(termYear) ELSE NaN

\* new Date(`${startYear}-08-01`) and new Date(`${startYear + 1}-07-31`)
termStartDate(termYear) ==
    IF parseInt(termYear) = NaN THEN NaN ELSE NewDate(parseInt(termYear) * 10000 + 801)

termEndDate(termYear) ==
    IF parseInt(termYear) = NaN THEN NaN ELSE NewDate((parseInt(termYear) + 1) * 10000 + 731)

totalDays(termYear) == DaysBetween(termEndDate(termYear), termStartDate(termYear))

\* Date.prototype.getDate(): the day of the month in LOCAL time.
getDate(date, west) ==
    IF date = NaN THEN NaN ELSE CivilFromDays(IF west THEN date - 1 ELSE date).d

\* Date.prototype.setDate(n): day n of the date's LOCAL month, the time of
\* day kept; n beyond the month's length runs on into the next month.
setDate(date, n, west) ==
    IF date = NaN \/ n = NaN THEN NaN
    ELSE LET shift == IF west THEN 1 ELSE 0
             local == CivilFromDays(date - shift)
         IN  DaysFromCivil(local.y, local.m, 1) + (n - 1) + shift

\* taskEnd of getBarPosition after "Ensure end date is after start date".
barEnd(task, west) ==
    LET taskStart == NewDate(task.startDate)
        taskEnd == NewDate(task.dueDate)
    IN  IF taskStart # NaN /\ taskEnd # NaN /\ taskEnd < taskStart
        THEN setDate(taskEnd, getDate(taskStart, west) + 1, west)
        ELSE taskEnd

\* duration of getBarPosition, in days.
barDuration(task, west) ==
    LET between == DaysBetween(barEnd(task, west), NewDate(task.startDate))
    IN  IF between = NaN THEN NaN
        ELSE IF between + 1 < 1 THEN 1 ELSE between + 1

\* offset of getBarPosition, in days: from the due date when a date is missing.
barOffset(task, termYear) ==
    IF ~ Truthy(task.startDate) \/ ~ Truthy(task.dueDate)
    THEN DaysBetween(NewDate(task.dueDate), termStartDate(termYear))
    ELSE DaysBetween(NewDate(task.startDate), termStartDate(termYear))

\* Variant: the width is not floored.
getBarPosition_NoFloor(task, termYear, west) ==
    [left |-> MathMax(Pct(0, 1), Percent(barOffset(task, termYear), totalDays(termYear))),
     width |-> IF ~ Truthy(task.startDate) \/ ~ Truthy(task.dueDate) THEN Pct(1, 1)
               ELSE Percent(barDuration(task, west), totalDays(termYear))]

\* GanttView.getBarPosition: left and width, the numbers before the "%".
getBarPosition(task, termYear, west) ==
    LET left == Percent(barOffset(task, termYear), totalDays(termYear))
    IN  IF ~ Truthy(task.startDate) \/ ~ Truthy(task.dueDate)
        THEN [left |-> MathMax(Pct(0, 1), left), width |-> Pct(1, 1)]
        ELSE LET width == Percent(barDuration(task, west), totalDays(termYear))
             IN  [left |-> MathMax(Pct(0, 1), left), width |-> MathMax(Pct(1, 2), width)]

\* (a, b) => new Date(a.startDate).getTime() - new Date(b.startDate).getTime()
compareStart(a, b) ==
    LET ta == getTime(NewDate(a.startDate))
        tb == getTime(NewDate(b.startDate))
    IN  IF ta = NaN \/ tb = NaN THEN NaN ELSE ta - tb

\* The comparator of GanttView orders these tasks consistently.
ConsistentStarts(tasks) ==
    LET times == { getTime(NewDate(tasks[i].startDate)) : i \in 1..Len(tasks) }
    IN  ~ (NaN \in times /\ Cardinality(times \ { NaN }) > 1)

RECURSIVE InsertByStart(_, _, _)
\* Position x put after every position of the sorted s whose task does not
\* start later; a comparator result of NaN is read as +0.
InsertByStart(p, s, x) ==
    IF s = << >> THEN << x >>
    ELSE LET c == compareStart(p.periods[Head(s)[1]].tasks[Head(s)[2]],
                               p.periods[x[1]].tasks[x[2]])
         IN  IF c = NaN \/ c <= 0 THEN << Head(s) >> \o InsertByStart(p, Tail(s), x)
             ELSE << x >> \o s

RECURSIVE SortByStart(_, _)
SortByStart(p, s) ==
    IF s = << >> THEN << >>
    ELSE InsertByStart(p, SortByStart(p, SubSeq(s, 1, Len(s) - 1)), s[Len(s)])

\* The arrays tasks.sort(...) of GanttView can leave behind, as positions.
GanttSortResults(p, s) ==
    IF ConsistentStarts([i \in 1..Len(s) |-> p.periods[s[i][1]].tasks[s[i][2]]])
    THEN { SortByStart(p, s) }
    ELSE Rearrangements(s)

Views == { "Dashboard", "Kanban", "Gantt" }

\* A sub-nav button of ProgressViewer: setView, and the view renders over
\* the array App passed; GanttView sorts that array where it is.
setView(v) ==
    /\ Rendered("progress")
    /\ v \in Views
    /\ v # view
    /\ view' = v
    /\ IF v = "Gantt"
       THEN activeTasks' \in GanttSortResults(plan, activeTasks)
       ELSE UNCHANGED activeTasks
    /\ UNCHANGED << plan, activeTab, loading, error, notification, timers,
                    clock, tzWest, adminVars, modalVars, report, last, used >>

\* Variant: the Not Started column takes every task that is not Completed.
tasksByStatus_Loose(p, tasks) ==
    [status \in { "Not-Started", "In-Progress", "Completed" } |->
       LET InColumn(pos) ==
              IF status = "Not-Started"
              THEN p.periods[pos[1]].tasks[pos[2]].status # "Completed"
              ELSE p.periods[pos[1]].tasks[pos[2]].status = status
       IN  SelectSeq(tasks, InColumn)]

\* KanbanView: tasksByStatus, as the positions of the cards of each column.
tasksByStatus(p, tasks) ==
    [status \in { "Not-Started", "In-Progress", "Completed" } |->
       LET HasStatus(pos) == p.periods[pos[1]].tasks[pos[2]].status = status
       IN  SelectSeq(tasks, HasStatus)]

\* AutomatedReportsView: allTasks.filter(task => task.status !== 'Removed'),
\* built at each of its renders and passed to the three views of the report.
reportActiveTasks(p) == ActivePositions(p)

\* "Generate Report": generateReport up to its await.
generateReport ==
    /\ Rendered("reports")
    /\ isAdmin
    /\ report # "loading"
    /\ used.reports < MaxReports
    /\ used' = [used EXCEPT !.reports = @ + 1]
    /\ report' = IF ai = Null THEN "failed" ELSE "loading"
    /\ UNCHANGED << plan, activeTab, loading, error, notification, timers,
                    clock, tzWest, adminVars, modalVars, activeTasks, view, last >>

\* generateReport from its await to its end: setReport or setError.
generateReportSettles(rejects) ==
    /\ report = "loading"
    /\ report' = IF rejects THEN "failed" ELSE "shown"
    /\ UNCHANGED << plan, activeTab, loading, error, notification, timers,
                    clock, tzWest, adminVars, modalVars, activeTasks, view, last, used >>

(***************************************************************************)
(* SpecAdd: adding tasks to the pre-built plan and to loaded plans          *)
(***************************************************************************)
NextAdd ==
    \/ \E tab \in { "addTask", "saveLoad" } : setActiveTab(tab)
    \/ \E form \in AddForms, now \in Now : handleAddTask(form, now)
    \/ \E file \in Files : handleLoad(file)

SpecAdd == Init /\ [][NextAdd]_vars

(***************************************************************************)
(* SpecIds: adding tasks and generating plans                              *)
(***************************************************************************)
NextIds ==
    \/ \E tab \in { "addTask", "admin" } : setActiveTab(tab)
    \/ \E form \in AddForms, now \in Now : handleAddTask(form, now)
    \/ \E password \in Passwords, key \in Keys, throws \in BOOLEAN :
          handleLogin(password, key, throws)
    \/ handleLogout
    \/ \E year \in GenerateYears : generatePlan(year)
    \/ \E response \in Responses : generatePlanSettles(response)

SpecIds == Init /\ [][NextIds]_vars

\* The promise of generateContent settles, and the event loop then runs the
\* rest of generatePlan.
SpecGenerate ==
    Init /\ [][NextIds]_vars
         /\ WF_vars(\E response \in Responses : generatePlanSettles(response))

(***************************************************************************)
(* SpecTasks: the task tables, the details modal, adding tasks             *)
(***************************************************************************)
Comments == { "", "Called the venue." }

TaskTabs == { "baseline", "added", "completed", "removed", "addTask" }

\* The forms submitted between the edits: one due date.
TaskForms == { form \in AddForms : form.dueDate = Ymd(0, 11, 20) }

NextTasks ==
    \/ \E tab \in TaskTabs : setActiveTab(tab)
    \/ \E form \in TaskForms, now \in Now : handleAddTask(form, now)
    \/ \E pos \in Positions(plan), field \in { "startDate", "dueDate", "status", "priority" } :
          \E value \in FieldValues(field) : handleFieldChange(pos, field, value)
    \/ \E pos \in Positions(plan) : handleRestoreTask(pos)
    \/ \E pos \in Positions(plan) : handleOpenModal(pos)
    \/ \E newComment \in Comments : handleCommentChange(newComment)
    \/ handleDetailsSave
    \/ closeModal

SpecTasks == Init /\ [][NextTasks]_vars

(***************************************************************************)
(* SpecRestore: removing and restoring tasks, pre-built and added          *)
(***************************************************************************)
\* The add form with its status select at Not Started or at Removed.
RestoreForms ==
    [startDate : AddStartDates, dueDate : { Ymd(0, 11, 20) },
     status : { "Not-Started", "Removed" }, priority : AddPriorities, comments : { "" }]

NextRestore ==
    \/ \E tab \in { "baseline", "added", "removed", "addTask" } : setActiveTab(tab)
    \/ \E form \in RestoreForms, now \in Now : handleAddTask(form, now)
    \/ \E pos \in Positions(plan), value \in Statuses :
          handleFieldChange(pos, "status", value)
    \/ \E pos \in Positions(plan) : handleRestoreTask(pos)

SpecRestore == Init /\ [][NextRestore]_vars

(***************************************************************************)
(* SpecGantt: dates edited, added and loaded, shown in the Gantt chart     *)
(***************************************************************************)
\* Start dates picked in a row: before the term, the row's due date, a later
\* month, the next year, the term's last day.
GanttStartDates == { Ymd(0, 7, 15), Ymd(0, 8, 25), Ymd(0, 10, 20), Ymd(1, 1, 10), Ymd(1, 7, 31) }

\* Due dates picked in a row: cleared, earlier in the month of the row's
\* start date, the row's start date, the term's last day.
GanttDueDates == { EmptyStr, Ymd(0, 8, 5), Ymd(0, 8, 22), Ymd(1, 7, 31) }

\* A saved plan of the term 2027-2028, which contains February 29: a one-day
\* task, a start date that is no date, a task begun before the term whose
\* due date is absent, a task that ends with the term.
FileLeapTerm ==
    PlanFile(CurrentYear + 2, <<
      Period("Fall", <<
        Task(1, Ymd(2, 8, 1), Ymd(2, 8, 1), "Not-Started", "Medium", Handbook, ""),
        Task(2, NotADate, Ymd(2, 9, 1), "Not-Started", "Medium", Handbook, ""),
        Task(4, Ymd(2, 7, 15), EmptyStr, "Not-Started", "Medium", Handbook, "") >>),
      Period("Spring", <<
        Task(3, Ymd(3, 2, 29), Ymd(3, 7, 31), "In-Progress", "Medium", Handbook, "") >>) >>)

GanttFiles == { FileLeapTerm, FileNotJson }

NextGantt ==
    \/ \E tab \in { "baseline", "progress", "saveLoad" } : setActiveTab(tab)
    \/ \E pos \in Positions(plan), value \in GanttStartDates :
          handleFieldChange(pos, "startDate", value)
    \/ \E pos \in Positions(plan), value \in GanttDueDates :
          handleFieldChange(pos, "dueDate", value)
    \/ \E file \in GanttFiles : handleLoad(file)
    \/ \E v \in Views : setView(v)

SpecGantt == Init /\ [][NextGantt]_vars

(***************************************************************************)
(* SpecKanban: tasks added, statuses changed in the tables, details saved, *)
(* shown on the Kanban board                                               *)
(***************************************************************************)
NextKanban ==
    \/ \E tab \in { "baseline", "removed", "addTask", "progress" } : setActiveTab(tab)
    \/ \E form \in TaskForms, now \in Now : handleAddTask(form, now)
    \/ \E pos \in Positions(plan), value \in Statuses :
          handleFieldChange(pos, "status", value)
    \/ \E pos \in Positions(plan) : handleRestoreTask(pos)
    \/ \E pos \in Positions(plan) : handleOpenModal(pos)
    \/ \E newComment \in Comments : handleCommentChange(newComment)
    \/ handleDetailsSave
    \/ closeModal
    \/ \E v \in { "Dashboard", "Kanban" } : setView(v)

SpecKanban == Init /\ [][NextKanban]_vars

(***************************************************************************)
(* SpecReport: statuses changed in the tables, the Progress Viewer, and    *)
(* the report of a logged-in admin                                         *)
(***************************************************************************)
NextReport ==
    \/ \E tab \in { "baseline", "progress", "admin", "reports" } : setActiveTab(tab)
    \/ \E pos \in Positions(plan), value \in Statuses :
          handleFieldChange(pos, "status", value)
    \/ \E password \in Passwords, key \in Keys, throws \in BOOLEAN :
          handleLogin(password, key, throws)
    \/ handleLogout
    \/ \E v \in Views : setView(v)
    \/ generateReport
    \/ \E rejects \in BOOLEAN : generateReportSettles(rejects)

SpecReport == Init /\ [][NextReport]_vars

(***************************************************************************)
(* SpecUpdate: tasks added to two periods, and the rows' inputs            *)
(***************************************************************************)
\* The add form with a due date for the first period (November) and one
\* for the third (March).
UpdateForms ==
    [startDate : AddStartDates, dueDate : { Ymd(0, 11, 20), Ymd(1, 3, 10) },
     status : AddStatuses, priority : AddPriorities, comments : { "" }]

NextUpdate ==
    \/ \E tab \in { "baseline", "added", "addTask" } : setActiveTab(tab)
    \/ \E form \in UpdateForms, now \in Now : handleAddTask(form, now)
    \/ \E pos \in Positions(plan), field \in { "startDate", "dueDate", "status", "priority" } :
          \E value \in FieldValues(field) : handleFieldChange(pos, field, value)

SpecUpdate == Init /\ [][NextUpdate]_vars

(***************************************************************************)
(* SpecDetails: tasks added to two periods, and the details modal          *)
(***************************************************************************)
NextDetails ==
    \/ \E tab \in { "baseline", "added", "addTask" } : setActiveTab(tab)
    \/ \E form \in UpdateForms, now \in Now : handleAddTask(form, now)
    \/ \E pos \in Positions(plan) : handleOpenModal(pos)
    \/ \E newComment \in Comments : handleCommentChange(newComment)
    \/ handleDetailsSave
    \/ closeModal

SpecDetails == Init /\ [][NextDetails]_vars

(***************************************************************************)
(* SpecNotify: notifications of adds, logins and logouts, and their timers *)
(***************************************************************************)
NextNotify ==
    \/ \E tab \in { "addTask", "admin" } : setActiveTab(tab)
    \/ \E form \in TaskForms, now \in Now : handleAddTask(form, now)
    \/ \E password \in Passwords, key \in Keys, throws \in BOOLEAN :
          handleLogin(password, key, throws)
    \/ handleLogout
    \/ timerFires

\* The browser runs the callback of a timer once its delay has passed.
SpecNotify == Init /\ [][NextNotify]_vars /\ WF_vars(timerFires)

(***************************************************************************)
(* SpecPriority: the task tables for a user and for the admin              *)
(***************************************************************************)
\* The add form with its priority select at High or at Low.
PriorityForms ==
    [startDate : AddStartDates, dueDate : { Ymd(0, 11, 20) },
     status : AddStatuses, priority : { "High", "Low" }, comments : { "" }]

NextPriority ==
    \/ \E tab \in { "baseline", "added", "removed", "addTask", "admin" } : setActiveTab(tab)
    \/ \E form \in PriorityForms, now \in Now : handleAddTask(form, now)
    \/ \E pos \in Positions(plan), field \in { "startDate", "dueDate", "status", "priority" } :
          \E value \in FieldValues(field) : handleFieldChange(pos, field, value)
    \/ \E pos \in Positions(plan) : handleRestoreTask(pos)
    \/ \E pos \in Positions(plan) : handleOpenModal(pos)
    \/ \E newComment \in Comments : handleCommentChange(newComment)
    \/ handleDetailsSave
    \/ closeModal
    \/ \E password \in Passwords, key \in Keys, throws \in BOOLEAN :
          handleLogin(password, key, throws)
    \/ handleLogout

SpecPriority == Init /\ [][NextPriority]_vars

(***************************************************************************)
(* Vocabulary of the properties of handleAddTask                           *)
(***************************************************************************)
Added == last.op = "add"
prevPeriods == last.prev
newTask == last.task

Range(s) == { s[i] : i \in 1..Len(s) }

\* How often each element occurs in a sequence.
Occurrences(s) == [x \in Range(s) |-> Cardinality({ i \in 1..Len(s) : s[i] = x })]

\* The calendar month (0..11) of a date string, as the browser's Date reports it.
MonthOf(dateStr) == getMonth(NewDate(dateStr), tzWest)

HasFirstDueDate(period) ==
    Len(period.tasks) > 0 /\ NewDate(period.tasks[1].dueDate) # NaN

\* The reference month of a period: the month of its first task's due date.
ReferenceMonth(period) == MonthOf(period.tasks[1].dueDate)

AllDueDatesValid(tasks) == \A i \in 1..Len(tasks) : NewDate(tasks[i].dueDate) # NaN

Ascending(tasks) ==
    \A i, j \in 1..Len(tasks) :
        (i < j /\ NewDate(tasks[i].dueDate) # NaN /\ NewDate(tasks[j].dueDate) # NaN)
            => NewDate(tasks[i].dueDate) <= NewDate(tasks[j].dueDate)

\* Period i of the plan holds the tasks it held before and the new task,
\* and every other period is as it was.
ReceivedBy(i) ==
    /\ Len(plan.periods) = Len(prevPeriods)
    /\ i \in 1..Len(prevPeriods)
    /\ plan.periods[i].periodName = prevPeriods[i].periodName
    /\ Occurrences(plan.periods[i].tasks)
         = Occurrences(Append(prevPeriods[i].tasks, newTask))
    /\ \A j \in 1..Len(prevPeriods) : j # i => plan.periods[j] = prevPeriods[j]

\* The periods that hold one task more than before the add.
Receivers ==
    { i \in 1..Len(prevPeriods) :
        /\ i <= Len(plan.periods)
        /\ Len(plan.periods[i].tasks) = Len(prevPeriods[i].tasks) + 1 }

\* Period i is the first, in stored order, whose reference month is not
\* after the new task's month; every period up to it has a first due date.
FirstMatch(i) ==
    /\ i \in 1..Len(prevPeriods)
    /\ \A j \in 1..i : HasFirstDueDate(prevPeriods[j])
    /\ ReferenceMonth(prevPeriods[i]) <= MonthOf(newTask.dueDate)
    /\ \A j \in 1..(i - 1) : ReferenceMonth(prevPeriods[j]) > MonthOf(newTask.dueDate)

C2_NovemberTaskInNovemberPeriod ==
    ( /\ Added
      /\ Len(prevPeriods) = 4
      /\ \A i \in 1..4 : HasFirstDueDate(prevPeriods[i])
      /\ << ReferenceMonth(prevPeriods[1]), ReferenceMonth(prevPeriods[2]),
            ReferenceMonth(prevPeriods[3]), ReferenceMonth(prevPeriods[4]) >>
           = << 7, 10, 1, 4 >>
      /\ MonthOf(newTask.dueDate) = 10 )
    => ReceivedBy(2)

C4_GeneralPeriod ==
    (Added /\ Len(prevPeriods) = 0)
    => plan.periods = << Period("General", << newTask >>) >>

C4_Witness ==
    /\ Added
    /\ Len(prevPeriods) = 0
    /\ Len(plan.periods) = 1

C6_OnePeriodExtended ==
    (Added /\ Len(prevPeriods) >= 1)
    => /\ Cardinality(Receivers) = 1
       /\ \A i \in Receivers : ReceivedBy(i)

\* The task went to a period other than the first, and its tasks moved.
C6_Witness ==
    /\ Added
    /\ \E i \in Receivers :
          /\ i > 1
          /\ ReceivedBy(i)
          /\ plan.periods[i].tasks # Append(prevPeriods[i].tasks, newTask)

(***************************************************************************)
(* C7. For a period without tasks handleAddTask takes as reference month   *)
(* the month of the term start, August 1 of the term's first year: a       *)
(* period without tasks that the scan reaches receives the new task        *)
(* exactly when the task's month is not before that month.                 *)
(***************************************************************************)
TermStartMonth == MonthOf(last.termYear * 10000 + 801)

C7_EmptyPeriodUsesTermStart ==
    Added =>
      \A i \in 1..Len(prevPeriods) :
        ( /\ Len(prevPeriods[i].tasks) = 0
          /\ \A j \in 1..(i - 1) :
                /\ HasFirstDueDate(prevPeriods[j])
                /\ ReferenceMonth(prevPeriods[j]) > MonthOf(newTask.dueDate) )
        => (ReceivedBy(i) <=> MonthOf(newTask.dueDate) >= TermStartMonth)

(***************************************************************************)
(* C8. When the receiving period was in ascending due-date order, the      *)
(* tasks it held keep their relative order, ties included: its sequence    *)
(* is the old one with the new task at its sorted position.                *)
(***************************************************************************)
InsertedAt(old, x, pos) ==
    SubSeq(old, 1, pos - 1) \o << x >> \o SubSeq(old, pos, Len(old))

C8_OrderKept ==
    Added =>
      \A i \in Receivers :
        (AllDueDatesValid(prevPeriods[i].tasks) /\ Ascending(prevPeriods[i].tasks))
        => /\ \E pos \in 1..(Len(prevPeriods[i].tasks) + 1) :
                plan.periods[i].tasks = InsertedAt(prevPeriods[i].tasks, newTask, pos)
           /\ Ascending(plan.periods[i].tasks)

\* The period held two tasks with one due date, and the new task went
\* in front of them.
C8_Witness ==
    /\ Added
    /\ \E i \in Receivers :
          /\ AllDueDatesValid(prevPeriods[i].tasks)
          /\ Ascending(prevPeriods[i].tasks)
          /\ \E a, b \in 1..Len(prevPeriods[i].tasks) :
                /\ a < b
                /\ prevPeriods[i].tasks[a].dueDate = prevPeriods[i].tasks[b].dueDate
                /\ prevPeriods[i].tasks[a] # prevPeriods[i].tasks[b]
          /\ \E pos \in 1..Len(prevPeriods[i].tasks) :
                plan.periods[i].tasks = InsertedAt(prevPeriods[i].tasks, newTask, pos)

(***************************************************************************)
(* Identity and permanence of tasks                                        *)
(***************************************************************************)
\* All tasks of a plan's periods, period after period.
RECURSIVE allTasks(_)
allTasks(periods) ==
    IF periods = << >> THEN << >>
    ELSE Head(periods).tasks \o allTasks(Tail(periods))

Ids(tasks) == { tasks[i].id : i \in 1..Len(tasks) }

\* How many of these tasks have this id.
Holders(tasks, id) == Cardinality({ i \in 1..Len(tasks) : tasks[i].id = id })

\* C9: in every state reached by adding tasks and generating plans, the ids
\* of the plan's tasks are pairwise distinct, also after two adds that read
\* the same clock value.
C9_IdsPairwiseDistinct ==
    LET tasks == allTasks(plan.periods)
    IN  \A i, j \in 1..Len(tasks) : tasks[i].id = tasks[j].id => i = j

TaskLevel == last.op \in { "add", "edit", "restore", "save" }

\* C10: no task-level operation (add, field edit, status change to Removed,
\* restore, details save) takes a task out of the plan: every id is held by
\* at least as many tasks after the operation as before it, in the same
\* number of periods.
C10_NoTaskRemoved ==
    TaskLevel =>
       /\ Len(plan.periods) >= Len(prevPeriods)
       /\ \A i \in 1..Len(prevPeriods) :
             \A id \in Ids(prevPeriods[i].tasks) :
                Holders(plan.periods[i].tasks, id) >= Holders(prevPeriods[i].tasks, id)

\* A row's status was changed to Removed and its task is still in the plan.
C10_Witness ==
    /\ last.op = "edit"
    /\ last.task.status = "Removed"
    /\ last.task \in Range(allTasks(plan.periods))
    /\ Len(allTasks(plan.periods)) = Len(allTasks(prevPeriods))

(***************************************************************************)
(* Restoring                                                               *)
(***************************************************************************)
Restored == last.op = "restore"

\* C11: restoring a Removed task sets its status to Not-Started and leaves
\* its other fields, its period and its position unchanged; afterwards the
\* task is not listed in the Removed view.
C11_RestoreInPlace ==
    Restored =>
       LET i == last.at[1]
           j == last.at[2]
       IN  /\ IsPosition(plan, last.at)
           /\ plan.periods[i].tasks[j] =
                 [prevPeriods[i].tasks[j] EXCEPT !.status = "Not-Started"]
           /\ ~ ListedIn("removed", plan.periods[i].tasks[j])

(***************************************************************************)
(* The Gantt chart                                                         *)
(***************************************************************************)
GanttShown == Rendered("progress") /\ view = "Gantt"

\* The tasks GanttView lays out.
GanttTasks == { TaskAt(plan, activeTasks[i]) : i \in 1..Len(activeTasks) }

Bar(task) == getBarPosition(task, plan.termYear, tzWest)

BothDatesValid(task) == IsDateStr(task.startDate) /\ IsDateStr(task.dueDate)

StartsBeforeTerm(task) ==
    /\ IsDateStr(task.startDate)
    /\ NewDate(task.startDate) < termStartDate(plan.termYear)

\* C12: the left offset of a bar is never negative, and a task whose start
\* date is before August 1 of the term's first year gets left = 0.
C12_LeftClamped ==
    GanttShown =>
       \A task \in GanttTasks :
          /\ ~ isNaN(Bar(task).left) => Bar(task).left.num >= 0
          /\ StartsBeforeTerm(task) => ~ isNaN(Bar(task).left) /\ Bar(task).left.num = 0

\* C13: a task with a start date and a due date (two calendar dates) gets a
\* width of at least 0.5 percent, also when the two dates are the same.
C13_WidthFloor ==
    GanttShown =>
       \A task \in GanttTasks :
          BothDatesValid(task) =>
             ~ isNaN(Bar(task).width) /\ ~ Less(Bar(task).width, Pct(1, 2))

\* The chart shows a task that starts and is due on the same day.
C13_Witness ==
    /\ GanttShown
    /\ \E task \in GanttTasks : BothDatesValid(task) /\ task.startDate = task.dueDate

\* The date string of the day after a date string's day.
NextDay(dateStr) ==
    LET c == CivilFromDays(NewDate(dateStr) + 1)
    IN  c.y * 10000 + c.m * 100 + c.d

\* C14: when the due date precedes the start date, the duration of the bar
\* is the one of a task due the day after its start date, in whatever
\* months and years the two dates are.
C14_DueBeforeStart ==
    GanttShown =>
       \A task \in GanttTasks :
          (BothDatesValid(task) /\ NewDate(task.dueDate) < NewDate(task.startDate)) =>
             barDuration(task, tzWest) =
                barDuration([task EXCEPT !.dueDate = NextDay(task.startDate)], tzWest)

\* C15: a task with a date that is no calendar date gets a bar of numbers,
\* with offset zero and a minimum width (at most the 1 percent of a marker).
C15_BadDateBar ==
    GanttShown =>
       \A task \in GanttTasks :
          ~ BothDatesValid(task) =>
             /\ ~ isNaN(Bar(task).left) /\ ~ isNaN(Bar(task).width)
             /\ Bar(task).left.num = 0
             /\ ~ Less(Pct(1, 1), Bar(task).width)

\* The days from August 1 to July 31 of the next year, both counted.
InclusiveTermDays(termYear) ==
    Cardinality(termStartDate(termYear)..termEndDate(termYear))

\* C16: the term span of GanttView is the number of days from August 1 to
\* July 31 counted with both endpoints: 365 without a February 29.
C16_InclusiveSpan ==
    GanttShown =>
       /\ totalDays(plan.termYear) = InclusiveTermDays(plan.termYear)
       /\ ~ IsLeap(plan.termYear + 1) => totalDays(plan.termYear) = 365

WithinTerm(task) ==
    /\ BothDatesValid(task)
    /\ termStartDate(plan.termYear) <= NewDate(task.startDate)
    /\ NewDate(task.startDate) <= NewDate(task.dueDate)
    /\ NewDate(task.dueDate) <= termEndDate(plan.termYear)

\* C20: for a task with term start <= start <= due <= term end, offset plus
\* duration is at most the term span: the bar ends within the timeline.
C20_BarWithinTimeline ==
    GanttShown =>
       \A task \in GanttTasks :
          WithinTerm(task) =>
             barOffset(task, plan.termYear) + barDuration(task, tzWest)
                <= totalDays(plan.termYear)

(***************************************************************************)
(* The Kanban board, the lists passed to the views                         *)
(***************************************************************************)
KanbanShown == Rendered("progress") /\ view = "Kanban"

Columns == { "Not-Started", "In-Progress", "Completed" }

NotRemovedCount ==
    Cardinality({ pos \in Positions(plan) : TaskAt(plan, pos).status # "Removed" })

\* C17: after adds, field edits, restores and details saves, the three
\* columns of the Kanban board have no task in common and their sizes add
\* up to the number of tasks of the plan that are not Removed.
C17_KanbanPartition ==
    KanbanShown =>
       LET columns == tasksByStatus(plan, activeTasks)
       IN  /\ \A a, b \in Columns :
                a # b => Range(columns[a]) \cap Range(columns[b]) = {}
           /\ \A a \in Columns : Cardinality(Range(columns[a])) = Len(columns[a])
           /\ Len(columns["Not-Started"]) + Len(columns["In-Progress"])
                 + Len(columns["Completed"]) = NotRemovedCount

\* The board is shown, with cards, for a plan that has a Removed task.
C17_Witness ==
    /\ KanbanShown
    /\ \E pos \in Positions(plan) : TaskAt(plan, pos).status = "Removed"
    /\ Len(tasksByStatus(plan, activeTasks)["Not-Started"]) > 0

\* The report of AutomatedReportsView with its three views is on the page.
ReportShown == Rendered("reports") /\ isAdmin /\ report = "shown"

\* C18: no Removed task is in the list passed to DashboardView, KanbanView
\* and GanttView, in the Progress Viewer and in the generated report.
C18_NoRemovedTaskInViews ==
    /\ Rendered("progress") =>
          \A i \in 1..Len(activeTasks) : TaskAt(plan, activeTasks[i]).status # "Removed"
    /\ ReportShown =>
          \A i \in 1..Len(reportActiveTasks(plan)) :
             TaskAt(plan, reportActiveTasks(plan)[i]).status # "Removed"

\* A report is shown for a plan that has a Removed task.
C18_Witness ==
    /\ ReportShown
    /\ \E pos \in Positions(plan) : TaskAt(plan, pos).status = "Removed"

\* C19: rendering GanttView has no side effects: the step that brings the
\* chart up changes neither the plan (so no period's order) nor the order
\* or content of the task list the chart was given.
C19_GanttRenderNoEffect ==
    [][(view' = "Gantt" /\ view # "Gantt") =>
          (plan' = plan /\ activeTasks' = activeTasks)]_vars

(***************************************************************************)
(* handleTaskUpdate                                                        *)
(***************************************************************************)
Updated == last.op \in { "edit", "restore", "save" }

\* As many periods, with the same names and as many tasks, as before.
SameShape ==
    /\ Len(plan.periods) = Len(prevPeriods)
    /\ \A i \in 1..Len(prevPeriods) :
          /\ plan.periods[i].periodName = prevPeriods[i].periodName
          /\ Len(plan.periods[i].tasks) = Len(prevPeriods[i].tasks)

PrevPositions ==
    UNION { { << i, j >> : j \in 1..Len(prevPeriods[i].tasks) } : i \in 1..Len(prevPeriods) }

PrevTaskAt(pos) == prevPeriods[pos[1]].tasks[pos[2]]

\* C21: handleTaskUpdate replaces the one task that has the updated task's
\* id and nothing else: periods and tasks keep their number and order, a
\* changed due date re-sorts and moves nothing, every task with another id
\* is unchanged, at most one task is replaced, and an id that no task has
\* leaves the plan as it was.
C21_OneTaskReplaced ==
    Updated =>
       /\ SameShape
       /\ \A pos \in PrevPositions :
             /\ PrevTaskAt(pos).id # last.task.id => TaskAt(plan, pos) = PrevTaskAt(pos)
             /\ TaskAt(plan, pos) \in { PrevTaskAt(pos), last.task }
       /\ Cardinality({ pos \in PrevPositions : TaskAt(plan, pos) # PrevTaskAt(pos) }) <= 1
       /\ (\A pos \in PrevPositions : PrevTaskAt(pos).id # last.task.id) =>
             plan.periods = prevPeriods

(***************************************************************************)
(* generatePlan                                                            *)
(***************************************************************************)
GenerationFailed == last.op = "generateFailed"

GenerationEnded ==
    /\ request = NoRequest
    /\ ~loading
    /\ \/ last.op = "generate" /\ plan.termYear \in GenerateYears
       \/ error # Null

\* C22: a generation whose call is rejected, or whose response does not
\* parse into a plan, leaves the plan as it was, sets the error message and
\* sets loading to false; and every generation that starts ends, with
\* loading false and the plan replaced or the error set.
C22_FailureKeepsPlan ==
    /\ [](GenerationFailed =>
            /\ plan.periods = prevPeriods
            /\ plan.termYear = last.termYear
            /\ error # Null
            /\ ~loading)
    /\ (request # NoRequest) ~> GenerationEnded

C22_Witness == GenerationFailed /\ request = NoRequest /\ plan = defaultPlan

(***************************************************************************)
(* handleLogin, handleLogout                                               *)
(***************************************************************************)
LoginAttempt == used'.logins = used.logins + 1

\* C23: the client handle is non-null exactly when isAdmin is true: a login
\* that succeeds sets both, a logout clears both, and a login that fails
\* leaves the handle, isAdmin and the active tab as they were.
C23_ClientIffAdmin ==
    /\ [](ai # Null <=> isAdmin)
    /\ [][LoginAttempt /\ isAdmin' => ai' # Null]_vars
    /\ [][LoginAttempt /\ ~isAdmin' =>
            ai' = ai /\ isAdmin' = isAdmin /\ activeTab' = activeTab]_vars
    /\ [][isAdmin /\ ~isAdmin' => ai' = Null]_vars

C23_Witness ==
    /\ used.logins = 1
    /\ ~isAdmin
    /\ ai = Null
    /\ notification = "You have been logged out."

(***************************************************************************)
(* SaveLoadView.handleLoad                                                 *)
(***************************************************************************)
\* The plans of the files that pass handleLoad's validation.
LoadablePlans ==
    { [termYear |-> file.termYear, periods |-> file.periods] :
        file \in { f \in Files : f.parses /\ f.hasTermYear /\ Truthy(f.termYear)
                                             /\ f.hasPeriods } }

LoadTurnedDown == last'.op = "loadFailed" /\ last' # last

LoadAccepted == used'.loads = used.loads + 1

\* C24: a file that is no JSON, or whose value lacks termYear or periods,
\* leaves the plan and the active tab as they were; a file that passes
\* replaces the whole plan by the file's and switches to the baseline tab.
C24_LoadValidates ==
    /\ [][LoadTurnedDown => plan' = plan /\ activeTab' = activeTab]_vars
    /\ [][LoadAccepted => plan' \in LoadablePlans /\ activeTab' = "baseline"]_vars

C24_Witness == last.op = "loadFailed" /\ activeTab = "saveLoad" /\ used.adds > 0

(***************************************************************************)
(* App's error state                                                       *)
(***************************************************************************)
TabNames ==
    { "baseline", "added", "completed", "removed", "addTask", "progress",
      "reports", "saveLoad", "admin" }

\* C25: once the error state is set by a failed generation nothing the user
\* does clears it: the error stays non-null in every later state, and while
\* it is non-null no tab's view is rendered, the Admin Panel included.
C25_ErrorStays ==
    /\ [][error # Null => error' # Null]_vars
    /\ [](error # Null => \A tab \in TabNames : ~Rendered(tab))

C25_Witness ==
    /\ GenerationFailed
    /\ error # Null
    /\ activeTab = "admin"
    /\ isAdmin
    /\ used.generations < MaxGenerations

(***************************************************************************)
(* A logout while a generation is in flight                                *)
(***************************************************************************)
\* The plans generatePlan builds from the responses that parse.
GeneratedPlans ==
    { [termYear |-> year, periods |-> Renumbered(response.periods)] :
        year \in GenerateYears,
        response \in { r \in Responses : ~r.rejects /\ r.parses /\ r.hasPeriods } }

Settles == request # NoRequest /\ request' = NoRequest

\* C26: a logout does not cancel the generation in flight: the request
\* stays pending, and when its response arrives with isAdmin false and the
\* client handle null it still ends the loading state and, unless it
\* failed, replaces the plan and switches to the baseline tab.
C26_LogoutKeepsRequest ==
    /\ [][isAdmin /\ ~isAdmin' => request' = request /\ loading' = loading]_vars
    /\ [][Settles /\ ~isAdmin /\ ai = Null =>
            /\ ~loading'
            /\ \/ /\ last'.op = "generate"
                  /\ plan' \in GeneratedPlans
                  /\ activeTab' = "baseline"
               \/ /\ last'.op = "generateFailed"
                  /\ plan' = plan
                  /\ error' # Null]_vars

\* Logged out (one login only), and the notification is the generation's,
\* so the response arrived after the logout.
C26_Witness ==
    /\ ~isAdmin
    /\ ai = Null
    /\ used.logins = 1
    /\ last.op = "generate"
    /\ plan \in GeneratedPlans
    /\ activeTab = "baseline"
    /\ notification = "New plan generated successfully!"

(***************************************************************************)
(* The details modal                                                       *)
(***************************************************************************)
DetailsSaved == last.op = "save"

\* The positions whose task is not the one it was before the operation.
ChangedPositions == { pos \in PrevPositions : TaskAt(plan, pos) # PrevTaskAt(pos) }

\* C27: saving the details modal changes nothing but the comments of the
\* edited task: every task keeps its position, its status, its dates and
\* its priority, every task but the edited one is unchanged; and closing
\* the modal without saving leaves the plan as it is.
C27_SaveChangesComments ==
    /\ [](DetailsSaved =>
            /\ SameShape
            /\ \A pos \in PrevPositions :
                  /\ [TaskAt(plan, pos) EXCEPT !.comments = PrevTaskAt(pos).comments]
                        = PrevTaskAt(pos)
                  /\ PrevTaskAt(pos).id # last.task.id => TaskAt(plan, pos) = PrevTaskAt(pos)
            /\ Cardinality(ChangedPositions) <= 1)
    /\ [][ModalOpen /\ ~ModalOpen' /\ last' = last => plan' = plan]_vars

(***************************************************************************)
(* The four list views                                                     *)
(***************************************************************************)
ListTabs == { "baseline", "added", "completed", "removed" }

ListsOf(task) == { tab \in ListTabs : ListedIn(tab, task) }

\* C28: in every reachable state every task of the plan is listed in
\* exactly one of the Baseline, Added, Completed and Removed views.
C28_ListedInOneView ==
    \A pos \in Positions(plan) : Cardinality(ListsOf(TaskAt(plan, pos))) = 1

\* Tasks of both sources, one of them an added task that is completed.
C28_Witness ==
    /\ \E pos \in Positions(plan) :
          /\ TaskAt(plan, pos).source = UserAdded
          /\ ListsOf(TaskAt(plan, pos)) = { "completed" }
    /\ \E pos \in Positions(plan) : ListsOf(TaskAt(plan, pos)) = { "baseline" }

(***************************************************************************)
(* The priority select of the task tables                                  *)
(***************************************************************************)
TaskTableStep == last' # last /\ last'.op \in { "edit", "restore", "save" }

\* C29: a field edit, status change, restore or details save changes the
\* priority of a task of the plan only when isAdmin is true and the task is
\* not Completed; while isAdmin is false none of them changes the priority
\* of any task.
C29_PriorityNeedsAdmin ==
    [][TaskTableStep =>
         \A pos \in Positions(plan) :
            TaskAt(plan', pos).priority # TaskAt(plan, pos).priority =>
               isAdmin /\ TaskAt(plan, pos).status # "Completed"]_vars

(***************************************************************************)
(* showNotification and its timers                                         *)
(***************************************************************************)
\* C30: every showNotification starts a timer of its own and no timer is
\* cancelled; every timer that fires clears the notification then shown,
\* also one shown after that timer was started; a notification that is
\* shown has its own timer pending, and is eventually cleared.
C30_NotificationTimers ==
    /\ [][notification' # Null /\ notification' # notification =>
            timers' = timers + 1]_vars
    /\ [][timers' < timers => timers' = timers - 1 /\ notification' = Null]_vars
    /\ [](notification # Null => timers > 0)
    /\ (notification # Null) ~> (notification = Null)

\* No notification is shown and a timer is still pending: the notification
\* that timer was started for was cleared by an earlier one.
C30_Witness == notification = Null /\ timers > 0

====
